---- MODULE Spec2Model ----
(***************************************************************************)
(* Model of belllush/task_manager (src/main.py): the Task record and its   *)
(* JSON serialization, and the TaskManager store with its add / change     *)
(* status / cancel / save / load operations.                               *)
(*                                                                         *)
(* Time.  datetime.now() has sub-second (microsecond) precision, while the *)
(* serialized format "%Y-%m-%d %H:%M:%S" has second precision.  A datetime *)
(* is modelled as a number of clock ticks, TicksPerSec ticks to a second;  *)
(* a formatted timestamp string is modelled by the number of whole seconds *)
(* it denotes, and a string that does not match the format by BadStamp.    *)
(*                                                                         *)
(* Status labels.  The enum values are Cyrillic display labels; they are   *)
(* written here in Latin transliteration.                                  *)
(***************************************************************************)
EXTENDS Integers, Sequences, FiniteSets, TLC

\* ---------------------------------------------------------------- bounds
MaxTasks == 2
MaxClock == 2
MaxOps == 4
TicksPerSec == 2

Titles == {"a", "b"}
Descriptions == {"d"}

\* ------------------------------------------------------------ TaskStatus
\* class TaskStatus(Enum): member names
Statuses == {"NEW", "IN_PROGRESS", "IN_REVIEW", "COMPLETED", "CANCELED"}

\* the enum with the label of IN_PROGRESS repeated for COMPLETED
StatusValue_dup(s) ==
    CASE s = "NEW" -> "Novaya"
      [] s = "IN_PROGRESS" -> "Vypolnyaetsya"
      [] s = "IN_REVIEW" -> "Revyu"
      [] s = "COMPLETED" -> "Vypolnyaetsya"
      [] s = "CANCELED" -> "Otmeneno"

\* TaskStatus.<member>.value: the display label of a member
StatusValue(s) ==
    CASE s = "NEW" -> "Novaya"
      [] s = "IN_PROGRESS" -> "Vypolnyaetsya"
      [] s = "IN_REVIEW" -> "Revyu"
      [] s = "COMPLETED" -> "Vypolneno"
      [] s = "CANCELED" -> "Otmeneno"

Labels == {StatusValue(s) : s \in Statuses}

\* TaskStatus(label): lookup of a member by value; defined for known labels
StatusOfValue(l) == CHOOSE s \in Statuses : StatusValue(s) = l

\* ------------------------------------------------------------------ Task
\* @dataclass Task: the five attributes
Task(title, description, status, created, changed) ==
    [title |-> title, description |-> description, status |-> status,
     created_date |-> created, status_changed_date |-> changed]

\* a formatted timestamp that does not match "%Y-%m-%d %H:%M:%S"
BadStamp == -1

\* datetime.strftime("%Y-%m-%d %H:%M:%S"): drops the sub-second part
strftime(t) == t \div TicksPerSec

\* datetime.strptime(s, "%Y-%m-%d %H:%M:%S") of a matching string
strptime(s) == s * TicksPerSec

\* to_dict with the two timestamps written under each other's key
to_dict_swapped(t) ==
    [title |-> t.title,
     description |-> t.description,
     status |-> StatusValue(t.status),
     created_date |-> strftime(t.status_changed_date),
     status_changed_date |-> strftime(t.created_date)]

\* Task.to_dict
to_dict(t) ==
    [title |-> t.title,
     description |-> t.description,
     status |-> StatusValue(t.status),
     created_date |-> strftime(t.created_date),
     status_changed_date |-> strftime(t.status_changed_date)]

\* the keys Task.from_dict reads, in the order it reads them
Keys == <<"title", "description", "status", "created_date", "status_changed_date">>

\* the exception raised by reading key k of entry d, or "ok"
FieldError(d, k) ==
    IF k \notin DOMAIN d THEN "KeyError"
    ELSE IF k = "status" /\ d[k] \notin Labels THEN "ValueError"
    ELSE IF k \in {"created_date", "status_changed_date"} /\ d[k] = BadStamp
         THEN "ValueError"
    ELSE "ok"

\* the exception Task.from_dict(d) raises: that of the first failing
\* argument expression, evaluated in source order; "ok" when none fails
FromDictError(d) ==
    IF \A i \in 1..Len(Keys) : FieldError(d, Keys[i]) = "ok" THEN "ok"
    ELSE LET i == CHOOSE i \in 1..Len(Keys) :
                    /\ FieldError(d, Keys[i]) # "ok"
                    /\ \A j \in 1..(i-1) : FieldError(d, Keys[j]) = "ok"
         IN FieldError(d, Keys[i])

\* Task.from_dict of an entry on which it raises nothing
from_dict(d) ==
    Task(d.title, d.description, StatusOfValue(d.status),
         strptime(d.created_date), strptime(d.status_changed_date))

\* ----------------------------------------------------------- TaskManager
\* history entries written by add_task and change_task_status
AddedEntry(title) == <<"Added", title>>
StatusEntry(title, status) == <<"StatusChanged", title, StatusValue(status)>>

\* index of the first task whose title equals title, 0 when there is none
FirstMatch(ts, title) ==
    IF \E i \in 1..Len(ts) : ts[i].title = title
    THEN CHOOSE i \in 1..Len(ts) :
            /\ ts[i].title = title
            /\ \A j \in 1..(i-1) : ts[j].title # title
    ELSE 0

\* change_task_status without the break: every match is updated
change_task_status_all(ts, hist, title, new_status, now) ==
    LET i == FirstMatch(ts, title) IN
    IF i = 0
    THEN [tasks |-> ts, history |-> hist, outcome |-> "ValueError"]
    ELSE [tasks |-> [j \in 1..Len(ts) |->
                        IF ts[j].title = title
                        THEN [ts[j] EXCEPT !.status = new_status,
                                           !.status_changed_date = now]
                        ELSE ts[j]],
          history |-> Append(hist, StatusEntry(ts[i].title, new_status)),
          outcome |-> "ok"]

\* change_task_status that logs the change before it looks for the task
change_task_status_logfirst(ts, hist, title, new_status, now) ==
    LET i == FirstMatch(ts, title) IN
    IF i = 0
    THEN [tasks |-> ts,
          history |-> Append(hist, StatusEntry(title, new_status)),
          outcome |-> "ValueError"]
    ELSE [tasks |-> [ts EXCEPT ![i].status = new_status,
                               ![i].status_changed_date = now],
          history |-> Append(hist, StatusEntry(ts[i].title, new_status)),
          outcome |-> "ok"]

\* change_task_status that stamps created_date as well
change_task_status_created(ts, hist, title, new_status, now) ==
    LET i == FirstMatch(ts, title) IN
    IF i = 0
    THEN [tasks |-> ts, history |-> hist, outcome |-> "ValueError"]
    ELSE [tasks |-> [ts EXCEPT ![i].status = new_status,
                               ![i].created_date = now,
                               ![i].status_changed_date = now],
          history |-> Append(hist, StatusEntry(ts[i].title, new_status)),
          outcome |-> "ok"]

\* change_task_status with a transition guard: a canceled task is final
change_task_status_guarded(ts, hist, title, new_status, now) ==
    LET i == FirstMatch(ts, title) IN
    IF i = 0 \/ (i # 0 /\ ts[i].status = "CANCELED")
    THEN [tasks |-> ts, history |-> hist, outcome |-> "ValueError"]
    ELSE [tasks |-> [ts EXCEPT ![i].status = new_status,
                               ![i].status_changed_date = now],
          history |-> Append(hist, StatusEntry(ts[i].title, new_status)),
          outcome |-> "ok"]

\* change_task_status that updates the last match instead of the first
change_task_status_last(ts, hist, title, new_status, now) ==
    IF FirstMatch(ts, title) = 0
    THEN [tasks |-> ts, history |-> hist, outcome |-> "ValueError"]
    ELSE LET i == CHOOSE i \in 1..Len(ts) :
                    /\ ts[i].title = title
                    /\ \A j \in (i+1)..Len(ts) : ts[j].title # title
         IN [tasks |-> [ts EXCEPT ![i].status = new_status,
                                  ![i].status_changed_date = now],
             history |-> Append(hist, StatusEntry(ts[i].title, new_status)),
             outcome |-> "ok"]

\* TaskManager.change_task_status: the store after the call and the
\* exception raised ("ok" for none); now is the value of datetime.now()
change_task_status(ts, hist, title, new_status, now) ==
    LET i == FirstMatch(ts, title) IN
    IF i = 0
    THEN [tasks |-> ts, history |-> hist, outcome |-> "ValueError"]
    ELSE [tasks |-> [ts EXCEPT ![i].status = new_status,
                               ![i].status_changed_date = now],
          history |-> Append(hist, StatusEntry(ts[i].title, new_status)),
          outcome |-> "ok"]

\* add_task that writes no history entry
add_task_nolog(ts, hist, task) ==
    [tasks |-> Append(ts, task), history |-> hist]

\* add_task that inserts the task at the front
add_task_front(ts, hist, task) ==
    [tasks |-> <<task>> \o ts,
     history |-> Append(hist, AddedEntry(task.title))]

\* TaskManager.add_task: the task list and the history after the call
add_task(ts, hist, task) ==
    [tasks |-> Append(ts, task),
     history |-> Append(hist, AddedEntry(task.title))]

\* cancel_task that removes the task instead of marking it
cancel_task_remove(ts, hist, title, now) ==
    LET i == FirstMatch(ts, title) IN
    IF i = 0
    THEN [tasks |-> ts, history |-> hist, outcome |-> "ValueError"]
    ELSE [tasks |-> [j \in 1..(Len(ts) - 1) |->
                        IF j < i THEN ts[j] ELSE ts[j + 1]],
          history |-> Append(hist, StatusEntry(ts[i].title, "CANCELED")),
          outcome |-> "ok"]

\* TaskManager.cancel_task
cancel_task(ts, hist, title, now) ==
    change_task_status(ts, hist, title, "CANCELED", now)

\* ------------------------------------------------------------- documents
\* The file at file_path.  kind: "absent" (no such file), "unreadable" (a
\* file open() refuses, e.g. for lack of permission), "garbage" (not
\* JSON), "partial" (a proper prefix, possibly empty, of a JSON document),
\* "array" (JSON whose top level is not an object), "object".
Doc(kind, hasTasks, entries) ==
    [kind |-> kind, hasTasks |-> hasTasks, tasks |-> entries]

NoFile == Doc("absent", FALSE, <<>>)

\* TaskManager.save_to_file: the document written
SavedDoc(ts) == Doc("object", TRUE, [i \in 1..Len(ts) |-> to_dict(ts[i])])

\* data.get("tasks", [])
TasksOf(doc) == IF doc.hasTasks THEN doc.tasks ELSE <<>>

\* load_from_file reading data["tasks"] instead of data.get("tasks", [])
LoadError_strict(doc) ==
    IF doc.kind = "absent" THEN "FileNotFoundError"
    ELSE IF doc.kind = "unreadable" THEN "PermissionError"
    ELSE IF doc.kind \in {"garbage", "partial"} THEN "JSONDecodeError"
    ELSE IF doc.kind = "array" THEN "TypeError"
    ELSE IF ~doc.hasTasks THEN "KeyError"
    ELSE LET es == doc.tasks IN
         IF \A i \in 1..Len(es) : FromDictError(es[i]) = "ok" THEN "ok"
         ELSE LET i == CHOOSE i \in 1..Len(es) :
                         /\ FromDictError(es[i]) # "ok"
                         /\ \A j \in 1..(i-1) : FromDictError(es[j]) = "ok"
              IN FromDictError(es[i])

\* the exception TaskManager.load_from_file raises on doc, "ok" for none
LoadError(doc) ==
    IF doc.kind = "absent" THEN "FileNotFoundError"
    ELSE IF doc.kind = "unreadable" THEN "PermissionError"
    ELSE IF doc.kind \in {"garbage", "partial"} THEN "JSONDecodeError"
    ELSE IF doc.kind = "array" THEN "AttributeError"
    ELSE LET es == TasksOf(doc) IN
         IF \A i \in 1..Len(es) : FromDictError(es[i]) = "ok" THEN "ok"
         ELSE LET i == CHOOSE i \in 1..Len(es) :
                         /\ FromDictError(es[i]) # "ok"
                         /\ \A j \in 1..(i-1) : FromDictError(es[j]) = "ok"
              IN FromDictError(es[i])

\* the task list TaskManager.load_from_file builds when nothing is raised
LoadedTasks(doc) ==
    LET es == TasksOf(doc) IN [i \in 1..Len(es) |-> from_dict(es[i])]

\* ---------------------------------------------- files found at the start
GoodEntry == [title |-> "a", description |-> "d", status |-> "Revyu",
              created_date |-> 1, status_changed_date |-> 0]
NoTitleEntry == [description |-> "d", status |-> "Novaya",
                 created_date |-> 0, status_changed_date |-> 0]
BadStatusEntry == [title |-> "b", description |-> "d", status |-> "Unknown",
                   created_date |-> 0, status_changed_date |-> 0]
BadStampEntry == [title |-> "b", description |-> "d", status |-> "Novaya",
                  created_date |-> 0, status_changed_date |-> BadStamp]

InitialFiles ==
    { NoFile,
      Doc("unreadable", FALSE, <<>>),
      Doc("garbage", FALSE, <<>>),
      Doc("array", FALSE, <<>>),
      Doc("object", FALSE, <<>>),
      Doc("object", TRUE, <<GoodEntry>>),
      Doc("object", TRUE, <<GoodEntry, NoTitleEntry>>),
      Doc("object", TRUE, <<BadStatusEntry, GoodEntry>>),
      Doc("object", TRUE, <<GoodEntry, BadStampEntry>>) }

\* ----------------------------------------------------------------- state
VARIABLES
    manager,    \* "none": no TaskManager object; "live": there is one
    tasks,      \* TaskManager.tasks
    history,    \* TaskManager.history
    file,       \* the document stored at the file path
    clock,      \* the wall clock, in ticks
    op,         \* the last call made, with its arguments
    outcome,    \* what the last call raised, "ok" for nothing
    nops,       \* number of calls made so far
    base,       \* number of tasks the store was constructed with
    added,      \* <<title, description>> of the AddTask calls on this store
    saved,      \* whether Save completed, and the task list it serialized
    changes,    \* number of successful status changes on this store
    startfile   \* the document the file held when the store was loaded

vars == <<manager, tasks, history, file, clock, op, outcome, nops, base,
          added, saved, changes, startfile>>

\* The program has not loaded the file yet: there is no TaskManager.
Init ==
    /\ manager = "none"
    /\ tasks = <<>>
    /\ history = <<>>
    /\ file \in InitialFiles
    /\ clock = 0
    /\ op = <<"none">>
    /\ outcome = "ok"
    /\ nops = 0
    /\ base = 0
    /\ added = <<>>
    /\ saved = [done |-> FALSE, tasks |-> <<>>]
    /\ changes = 0
    /\ startfile = file

\* the clock advances
Tick ==
    /\ clock < MaxClock
    /\ clock' = clock + 1
    /\ UNCHANGED <<manager, tasks, history, file, op, outcome, nops, base,
                   added, saved, changes, startfile>>

\* the initial load recovering from every exception
New_any ==
    /\ manager = "none"
    /\ op = <<"Load">>
    /\ outcome # "ok"
    /\ manager' = "live"
    /\ tasks' = <<>>
    /\ history' = <<>>
    /\ op' = <<"New">>
    /\ outcome' = "ok"
    /\ base' = 0
    /\ added' = <<>>
    /\ changes' = 0
    /\ UNCHANGED <<file, clock, nops, saved, startfile>>

\* main.py lines 99-100: the file does not exist, start with TaskManager()
New ==
    /\ manager = "none"
    /\ op = <<"Load">>
    /\ outcome = "FileNotFoundError"
    /\ manager' = "live"
    /\ tasks' = <<>>
    /\ history' = <<>>
    /\ op' = <<"New">>
    /\ outcome' = "ok"
    /\ base' = 0
    /\ added' = <<>>
    /\ changes' = 0
    /\ UNCHANGED <<file, clock, nops, saved, startfile>>

\* load_from_file that skips the entries from_dict rejects
Load_partial ==
    /\ nops < MaxOps
    /\ op' = <<"Load">>
    /\ nops' = nops + 1
    /\ history' = <<>>
    /\ added' = <<>>
    /\ IF file.kind = "object"
       THEN LET es == SelectSeq(TasksOf(file),
                                LAMBDA e : FromDictError(e) = "ok")
            IN /\ outcome' = "ok"
               /\ manager' = "live"
               /\ tasks' = [i \in 1..Len(es) |-> from_dict(es[i])]
               /\ base' = Len(es)
       ELSE /\ outcome' = LoadError(file)
            /\ manager' = "none"
            /\ tasks' = <<>>
            /\ base' = 0
    /\ changes' = 0
    /\ startfile' = file
    /\ UNCHANGED <<file, clock, saved>>

\* TaskManager.load_from_file(path): a new store built from the file, or
\* an exception and no store
Load ==
    /\ nops < MaxOps
    /\ op' = <<"Load">>
    /\ outcome' = LoadError(file)
    /\ nops' = nops + 1
    /\ history' = <<>>
    /\ added' = <<>>
    /\ IF LoadError(file) = "ok"
       THEN /\ manager' = "live"
            /\ tasks' = LoadedTasks(file)
            /\ base' = Len(LoadedTasks(file))
       ELSE /\ manager' = "none"
            /\ tasks' = <<>>
            /\ base' = 0
    /\ changes' = 0
    /\ startfile' = file
    /\ UNCHANGED <<file, clock, saved>>

\* AddTask that refuses a title the store already holds
AddTask_dedup(title, description) ==
    /\ manager = "live"
    /\ nops < MaxOps
    /\ Len(tasks) < MaxTasks
    /\ IF FirstMatch(tasks, title) # 0
       THEN /\ outcome' = "ValueError"
            /\ UNCHANGED <<tasks, history, clock>>
       ELSE /\ outcome' = "ok"
            /\ \E d \in 0..1 :
                 /\ clock + d <= MaxClock
                 /\ clock' = clock + d
                 /\ tasks' = Append(tasks,
                       Task(title, description, "NEW", clock, clock + d))
            /\ history' = Append(history, AddedEntry(title))
    /\ op' = <<"AddTask", title, description>>
    /\ nops' = nops + 1
    /\ added' = Append(added, <<title, description>>)
    /\ UNCHANGED <<manager, file, base, saved, changes, startfile>>

\* AddTask with the two clock reads assigned the other way round
AddTask_swapped(title, description) ==
    /\ manager = "live"
    /\ nops < MaxOps
    /\ Len(tasks) < MaxTasks
    /\ \E d \in 0..1 :
        /\ clock + d <= MaxClock
        /\ clock' = clock + d
        /\ LET r == add_task(tasks, history,
                       Task(title, description, "NEW", clock + d, clock))
           IN /\ tasks' = r.tasks
              /\ history' = r.history
    /\ op' = <<"AddTask", title, description>>
    /\ outcome' = "ok"
    /\ nops' = nops + 1
    /\ added' = Append(added, <<title, description>>)
    /\ UNCHANGED <<manager, file, base, saved, changes, startfile>>

\* menu choice 1: Task(title, description, NEW, now(), now()) and add_task.
\* The two datetime.now() calls are separate reads of the clock.
AddTask(title, description) ==
    /\ manager = "live"
    /\ nops < MaxOps
    /\ Len(tasks) < MaxTasks
    /\ \E d \in 0..1 :
        /\ clock + d <= MaxClock
        /\ clock' = clock + d
        /\ LET r == add_task(tasks, history,
                       Task(title, description, "NEW", clock, clock + d))
           IN /\ tasks' = r.tasks
              /\ history' = r.history
    /\ op' = <<"AddTask", title, description>>
    /\ outcome' = "ok"
    /\ nops' = nops + 1
    /\ added' = Append(added, <<title, description>>)
    /\ UNCHANGED <<manager, file, base, saved, changes, startfile>>

\* TaskManager.change_task_status(title, new_status)
ChangeStatus(title, new_status) ==
    /\ manager = "live"
    /\ nops < MaxOps
    /\ LET r == change_task_status(tasks, history, title, new_status, clock)
       IN /\ tasks' = r.tasks
          /\ history' = r.history
          /\ outcome' = r.outcome
          /\ changes' = IF r.outcome = "ok" THEN changes + 1 ELSE changes
    /\ op' = <<"ChangeStatus", title, new_status>>
    /\ nops' = nops + 1
    /\ UNCHANGED <<manager, file, clock, base, added, saved, startfile>>

\* TaskManager.cancel_task(title)
CancelTask(title) ==
    /\ manager = "live"
    /\ nops < MaxOps
    /\ LET r == cancel_task(tasks, history, title, clock)
       IN /\ tasks' = r.tasks
          /\ history' = r.history
          /\ outcome' = r.outcome
          /\ changes' = IF r.outcome = "ok" THEN changes + 1 ELSE changes
    /\ op' = <<"CancelTask", title>>
    /\ nops' = nops + 1
    /\ UNCHANGED <<manager, file, clock, base, added, saved, startfile>>

\* save_to_file that keeps the entries the file already holds
Save_merge ==
    /\ manager = "live"
    /\ nops < MaxOps
    /\ file' = IF file.kind = "object"
               THEN Doc("object", TRUE, TasksOf(file) \o SavedDoc(tasks).tasks)
               ELSE SavedDoc(tasks)
    /\ saved' = [done |-> TRUE, tasks |-> tasks]
    /\ op' = <<"Save">>
    /\ outcome' = "ok"
    /\ nops' = nops + 1
    /\ UNCHANGED <<manager, tasks, history, clock, base, added, changes,
                   startfile>>

\* TaskManager.save_to_file(path)
Save ==
    /\ manager = "live"
    /\ nops < MaxOps
    /\ file' = SavedDoc(tasks)
    /\ saved' = [done |-> TRUE, tasks |-> tasks]
    /\ op' = <<"Save">>
    /\ outcome' = "ok"
    /\ nops' = nops + 1
    /\ UNCHANGED <<manager, tasks, history, clock, base, added, changes,
                   startfile>>

\* save_to_file writing a temporary file and renaming it: an interrupted
\* call leaves the destination as it was
SaveInterrupted_atomic ==
    /\ manager = "live"
    /\ nops < MaxOps
    /\ manager' = "none"
    /\ tasks' = <<>>
    /\ history' = <<>>
    /\ op' = <<"SaveInterrupted">>
    /\ outcome' = "killed"
    /\ nops' = nops + 1
    /\ UNCHANGED <<file, saved, clock, base, added, changes, startfile>>

\* TaskManager.save_to_file(path) interrupted (the process is killed)
\* after open(file_path, "w") has truncated the file and before json.dump
\* and the close have written all of the document
SaveInterrupted ==
    /\ manager = "live"
    /\ nops < MaxOps
    /\ file' = Doc("partial", FALSE, <<>>)
    /\ saved' = [done |-> FALSE, tasks |-> <<>>]
    /\ manager' = "none"
    /\ tasks' = <<>>
    /\ history' = <<>>
    /\ op' = <<"SaveInterrupted">>
    /\ outcome' = "killed"
    /\ nops' = nops + 1
    /\ UNCHANGED <<clock, base, added, changes, startfile>>

Next ==
    \/ Tick
    \/ New
    \/ Load
    \/ \E title \in Titles, description \in Descriptions :
          AddTask(title, description)
    \/ \E title \in Titles, new_status \in Statuses :
          ChangeStatus(title, new_status)
    \/ \E title \in Titles : CancelTask(title)
    \/ Save
    \/ SaveInterrupted

Spec == Init /\ [][Next]_vars

\* ------------------------------------------- the interactive loop of main
\* what input("...") can return for a title: any line, the empty one too
InputTitles == {"", "a"}

\* main.py line 98: the program is started and loads the file
MainStart ==
    /\ manager = "none"
    /\ Load

\* the process ends: its TaskManager is gone
Ended ==
    /\ manager' = "none"
    /\ tasks' = <<>>
    /\ history' = <<>>

\* menu choice 2 with a valid status name: change_task_status is called;
\* only KeyError is caught, so its ValueError ends the program
MainChangeStatus(title, new_status) ==
    /\ manager = "live"
    /\ nops < MaxOps
    /\ LET r == change_task_status(tasks, history, title, new_status, clock)
       IN /\ outcome' = r.outcome
          /\ changes' = IF r.outcome = "ok" THEN changes + 1 ELSE changes
          /\ IF r.outcome = "ok"
             THEN /\ tasks' = r.tasks
                  /\ history' = r.history
                  /\ manager' = manager
             ELSE Ended
    /\ op' = <<"ChangeStatus", title, new_status>>
    /\ nops' = nops + 1
    /\ UNCHANGED <<file, clock, base, added, saved, startfile>>

\* menu choice 2 with a status name that is not a member of TaskStatus:
\* the KeyError is caught and the loop goes on
MainInvalidStatus(title) ==
    /\ manager = "live"
    /\ nops < MaxOps
    /\ op' = <<"InvalidStatus", title>>
    /\ outcome' = "ok"
    /\ nops' = nops + 1
    /\ UNCHANGED <<manager, tasks, history, file, clock, base, added, saved,
                   changes, startfile>>

\* menu choice 3: cancel_task is called, nothing is caught
MainCancel(title) ==
    /\ manager = "live"
    /\ nops < MaxOps
    /\ LET r == cancel_task(tasks, history, title, clock)
       IN /\ outcome' = r.outcome
          /\ changes' = IF r.outcome = "ok" THEN changes + 1 ELSE changes
          /\ IF r.outcome = "ok"
             THEN /\ tasks' = r.tasks
                  /\ history' = r.history
                  /\ manager' = manager
             ELSE Ended
    /\ op' = <<"CancelTask", title>>
    /\ nops' = nops + 1
    /\ UNCHANGED <<file, clock, base, added, saved, startfile>>

\* menu choice 4: save_to_file, then break
MainSaveExit ==
    /\ manager = "live"
    /\ nops < MaxOps
    /\ file' = SavedDoc(tasks)
    /\ saved' = [done |-> TRUE, tasks |-> tasks]
    /\ Ended
    /\ op' = <<"Save">>
    /\ outcome' = "ok"
    /\ nops' = nops + 1
    /\ UNCHANGED <<clock, base, added, changes, startfile>>

\* menu choice 5 writing the file before it leaves
MainExit_autosave ==
    /\ manager = "live"
    /\ nops < MaxOps
    /\ file' = SavedDoc(tasks)
    /\ Ended
    /\ op' = <<"Exit">>
    /\ outcome' = "ok"
    /\ nops' = nops + 1
    /\ UNCHANGED <<clock, base, added, saved, changes, startfile>>

\* menu choice 5: break
MainExit ==
    /\ manager = "live"
    /\ nops < MaxOps
    /\ Ended
    /\ op' = <<"Exit">>
    /\ outcome' = "ok"
    /\ nops' = nops + 1
    /\ UNCHANGED <<file, clock, base, added, saved, changes, startfile>>

\* any other menu choice: a message is printed and the loop goes on
MainInvalidChoice ==
    /\ manager = "live"
    /\ nops < MaxOps
    /\ op' = <<"InvalidChoice">>
    /\ outcome' = "ok"
    /\ nops' = nops + 1
    /\ UNCHANGED <<manager, tasks, history, file, clock, base, added, saved,
                   changes, startfile>>

MainNext ==
    \/ Tick
    \/ MainStart
    \/ New
    \/ \E title \in InputTitles, description \in Descriptions :
          AddTask(title, description)
    \/ \E title \in InputTitles, new_status \in Statuses :
          MainChangeStatus(title, new_status)
    \/ \E title \in InputTitles : MainInvalidStatus(title)
    \/ \E title \in InputTitles : MainCancel(title)
    \/ MainSaveExit
    \/ MainExit
    \/ MainInvalidChoice

MainSpec == Init /\ [][MainNext]_vars

\* ----------------------------------------------------- claim definitions
\* a step that is a call of one of the named operations
Called(names) == nops' = nops + 1 /\ op'[1] \in names

\* a datetime with its sub-second part dropped
TruncStamp(t) == t - (t % TicksPerSec)

\* a task with both timestamps truncated to second precision
Truncated(t) ==
    [t EXCEPT !.created_date = TruncStamp(@),
              !.status_changed_date = TruncStamp(@)]

\* C1: a ChangeStatus(title, S) call whose first match is at index i keeps
\* the length and order of the sequence, every task other than i (later
\* tasks with the same title included), and the title, description and
\* created_date of task i.
C1_ChangeStatusFrame ==
    [][ (Called({"ChangeStatus"}) /\ FirstMatch(tasks, op'[2]) # 0) =>
          LET i == FirstMatch(tasks, op'[2]) IN
          /\ Len(tasks') = Len(tasks)
          /\ \A j \in 1..Len(tasks) :
                IF j = i
                THEN /\ tasks'[j].title = tasks[j].title
                     /\ tasks'[j].description = tasks[j].description
                     /\ tasks'[j].created_date = tasks[j].created_date
                ELSE tasks'[j] = tasks[j] ]_vars

\* C1 witness: ChangeStatus has updated the first of two tasks with the
\* same title and the second one still has its old status.
C1_Witness ==
    /\ op[1] = "ChangeStatus"
    /\ outcome = "ok"
    /\ Len(tasks) = 2
    /\ tasks[1].title = op[2]
    /\ tasks[2].title = op[2]
    /\ tasks[1].status = op[3]
    /\ tasks[2].status # op[3]

\* C2: ChangeStatus and CancelTask with a title no task has raise the
\* not-found error (ValueError, main.py line 67) and leave the task
\* sequence and the history as they were.
C2_NotFoundNoChange ==
    [][ (Called({"ChangeStatus", "CancelTask"})
         /\ \A i \in 1..Len(tasks) : tasks[i].title # op'[2]) =>
          /\ outcome' = "ValueError"
          /\ tasks' = tasks
          /\ history' = history ]_vars

\* C2 witness: a ChangeStatus call failed on a store that holds a task and
\* has a history.
C2_Witness ==
    /\ op[1] = "ChangeStatus"
    /\ outcome = "ValueError"
    /\ Len(tasks) >= 1
    /\ Len(history) >= 1

\* C3 as stated: Load after Save yields tasks field-for-field equal to the
\* saved ones, in the same order, and an empty history.
C3_Original ==
    (op[1] = "Load" /\ saved.done) =>
        /\ outcome = "ok"
        /\ tasks = saved.tasks
        /\ history = <<>>

\* C3 amended: Load after Save yields the saved tasks in the same order
\* with title, description and status equal and both timestamps truncated
\* to second precision, and an empty history.
C3_SaveLoadRoundTrip ==
    (op[1] = "Load" /\ saved.done) =>
        /\ outcome = "ok"
        /\ manager = "live"
        /\ Len(tasks) = Len(saved.tasks)
        /\ \A i \in 1..Len(tasks) : tasks[i] = Truncated(saved.tasks[i])
        /\ history = <<>>

\* C3 witness: a store whose first task had its status changed at a time
\* with a sub-second part was saved and then loaded.
C3_Witness ==
    /\ op[1] = "Load"
    /\ saved.done
    /\ Len(saved.tasks) >= 1
    /\ saved.tasks[1].status = "IN_PROGRESS"
    /\ saved.tasks[1].status_changed_date % TicksPerSec # 0
    /\ Len(tasks) >= 1
    /\ tasks[1].status = "IN_PROGRESS"

\* C4: for every task of the store, from_dict(to_dict(t)) raises nothing
\* and yields t with both timestamps truncated to second precision; the 5
\* labels are distinct and map back to their 5 members.
C4_TaskRoundTrip ==
    /\ Cardinality(Labels) = 5
    /\ \A s \in Statuses : StatusOfValue(StatusValue(s)) = s
    /\ \A i \in 1..Len(tasks) :
          /\ FromDictError(to_dict(tasks[i])) = "ok"
          /\ from_dict(to_dict(tasks[i])) = Truncated(tasks[i])

\* C4 witness: the store holds a COMPLETED task whose timestamps have a
\* sub-second part, so the round trip changes it.
C4_Witness ==
    /\ Len(tasks) >= 1
    /\ tasks[1].status = "COMPLETED"
    /\ tasks[1].status_changed_date % TicksPerSec # 0
    /\ from_dict(to_dict(tasks[1])) # tasks[1]

\* C5: AddTask raises nothing, and the store holds the tasks it was
\* constructed with followed by one task per AddTask call, in call order
\* (exactly n tasks after n calls on a store that started empty).
C5_AddNeverRejected ==
    /\ op[1] = "AddTask" => outcome = "ok"
    /\ manager = "live" =>
          /\ Len(tasks) = base + Len(added)
          /\ \A i \in 1..Len(added) :
                /\ tasks[base + i].title = added[i][1]
                /\ tasks[base + i].description = added[i][2]

\* C5 witness: two AddTask calls with the same title on a store that
\* started empty, followed by a Save.
C5_Witness ==
    /\ manager = "live"
    /\ base = 0
    /\ Len(added) = 2
    /\ added[1][1] = added[2][1]
    /\ op[1] = "Save"
    /\ Len(tasks) = 2

\* C6: a CancelTask(title) call has the result ChangeStatus(title,
\* CANCELED) has in the same state: tasks, history and outcome.
C6_CancelIsChangeToCanceled ==
    [][ Called({"CancelTask"}) =>
          LET r == change_task_status(tasks, history, op'[2], "CANCELED",
                                      clock)
          IN /\ tasks' = r.tasks
             /\ history' = r.history
             /\ outcome' = r.outcome ]_vars

\* C6 witness: CancelTask succeeded on the second of two tasks.
C6_Witness ==
    /\ op[1] = "CancelTask"
    /\ outcome = "ok"
    /\ Len(tasks) = 2
    /\ tasks[1].title # op[2]
    /\ tasks[2].status = "CANCELED"
    /\ history[Len(history)] = <<"StatusChanged", op[2], "Otmeneno">>

\* the three causes that make an entry of the tasks array invalid
KeySet == {Keys[i] : i \in 1..Len(Keys)}
MissingKey(e) == \E k \in KeySet : k \notin DOMAIN e
UnknownStatus(e) == "status" \in DOMAIN e /\ e.status \notin Labels
BadTimestamp(e) ==
    \E k \in {"created_date", "status_changed_date"} :
        k \in DOMAIN e /\ e[k] = BadStamp
InvalidEntry(e) == MissingKey(e) \/ UnknownStatus(e) \/ BadTimestamp(e)
HasInvalidEntry(doc) ==
    /\ doc.kind = "object"
    /\ \E i \in 1..Len(TasksOf(doc)) : InvalidEntry(TasksOf(doc)[i])

\* C7 as stated: Load of a tasks array with an invalid entry yields no
\* store and reports one and the same error kind for all three causes.
C7_Original ==
    (op[1] = "Load" /\ HasInvalidEntry(file)) =>
        /\ manager = "none"
        /\ tasks = <<>>
        /\ outcome = "ValueError"

\* C7 amended: Load of a tasks array with an invalid entry yields no store
\* (never the valid entries around the bad one); the error is KeyError when
\* the invalid entries only miss keys and ValueError when they only have an
\* unknown status label or a malformed timestamp.
C7_LoadAllOrNothing ==
    (op[1] = "Load" /\ HasInvalidEntry(file)) =>
        LET es == TasksOf(file) IN
        /\ manager = "none"
        /\ tasks = <<>>
        /\ outcome \in {"KeyError", "ValueError"}
        /\ (\A i \in 1..Len(es) : ~UnknownStatus(es[i]) /\ ~BadTimestamp(es[i]))
              => outcome = "KeyError"
        /\ (\A i \in 1..Len(es) : ~MissingKey(es[i]))
              => outcome = "ValueError"

\* C7 witness: Load failed on a file whose first entry is valid and whose
\* second entry misses a key.
C7_Witness ==
    /\ op[1] = "Load"
    /\ file.kind = "object"
    /\ Len(TasksOf(file)) = 2
    /\ ~InvalidEntry(TasksOf(file)[1])
    /\ MissingKey(TasksOf(file)[2])
    /\ outcome = "KeyError"

\* C8 as stated: Load of any parseable document without a tasks key
\* succeeds with an empty task sequence and an empty history.
C8_Original ==
    (op[1] = "Load" /\ file.kind \in {"object", "array"} /\ ~file.hasTasks) =>
        /\ outcome = "ok"
        /\ manager = "live"
        /\ tasks = <<>>
        /\ history = <<>>

\* C8 amended: Load of a document that is a JSON object without a tasks
\* key succeeds with an empty task sequence and an empty history.
C8_LoadWithoutTasksKey ==
    (op[1] = "Load" /\ file.kind = "object" /\ ~file.hasTasks) =>
        /\ outcome = "ok"
        /\ manager = "live"
        /\ tasks = <<>>
        /\ history = <<>>

\* C8 witness: Load has read an object without a tasks key.
C8_Witness ==
    /\ op[1] = "Load"
    /\ file.kind = "object"
    /\ ~file.hasTasks
    /\ manager = "live"

\* C9: an AddTask call appends one task with status NEW whose
\* status_changed_date equals its created_date, and one history entry.
C9_AddedTaskIsNew ==
    [][ Called({"AddTask"}) =>
          /\ Len(tasks') = Len(tasks) + 1
          /\ tasks'[Len(tasks')].status = "NEW"
          /\ tasks'[Len(tasks')].status_changed_date
                = tasks'[Len(tasks')].created_date
          /\ history' = Append(history, AddedEntry(op'[2])) ]_vars

\* C10: no AddTask, ChangeStatus, CancelTask or Save call changes the
\* created_date of a task the store already holds.
C10_CreatedDateFixed ==
    [][ Called({"AddTask", "ChangeStatus", "CancelTask", "Save"}) =>
          \A i \in 1..Len(tasks) :
              /\ i <= Len(tasks')
              /\ tasks'[i].created_date = tasks[i].created_date ]_vars

\* C10 witness: a task's status was changed after the clock had moved on
\* from its creation.
C10_Witness ==
    /\ op[1] \in {"ChangeStatus", "CancelTask"}
    /\ outcome = "ok"
    /\ Len(tasks) >= 1
    /\ tasks[1].title = op[2]
    /\ tasks[1].created_date = 0
    /\ tasks[1].status_changed_date = MaxClock
    /\ clock = MaxClock

\* C11: a ChangeStatus(title, S) call on an existing title is accepted
\* whatever the current status and S are; it sets the status of the first
\* match to S and its status_changed_date to the current time, and appends
\* one history entry.
C11_AnyTransitionAccepted ==
    [][ (Called({"ChangeStatus"}) /\ FirstMatch(tasks, op'[2]) # 0) =>
          LET i == FirstMatch(tasks, op'[2]) IN
          /\ outcome' = "ok"
          /\ tasks'[i].status = op'[3]
          /\ tasks'[i].status_changed_date = clock
          /\ history' = Append(history, StatusEntry(op'[2], op'[3])) ]_vars

\* C11 witness: a canceled task was set back to NEW.
C11_Witness ==
    /\ op[1] = "ChangeStatus"
    /\ op[3] = "NEW"
    /\ outcome = "ok"
    /\ Len(history) >= 2
    /\ history[Len(history) - 1] = <<"StatusChanged", op[2], "Otmeneno">>
    /\ history[Len(history)] = <<"StatusChanged", op[2], "Novaya">>
    /\ tasks[FirstMatch(tasks, op[2])].status = "NEW"

\* C12: the history is append-only: AddTask and a successful ChangeStatus
\* or CancelTask append one entry and keep the earlier ones, a failed
\* ChangeStatus or CancelTask and a Save leave the history as it was, and
\* its length is the number of AddTask calls plus the number of successful
\* status changes since the store was constructed or loaded.
C12_HistoryAppendOnly ==
    [][ /\ (Called({"AddTask"})
            \/ (Called({"ChangeStatus", "CancelTask"}) /\ outcome' = "ok")) =>
              /\ Len(history') = Len(history) + 1
              /\ SubSeq(history', 1, Len(history)) = history
        /\ (Called({"ChangeStatus", "CancelTask"}) /\ outcome' # "ok") =>
              history' = history
        /\ Called({"Save"}) => history' = history
        /\ manager' = "live" => Len(history') = Len(added') + changes' ]_vars

\* C12 witness: one add, one successful change, then a failed change.
C12_Witness ==
    /\ op[1] = "ChangeStatus"
    /\ outcome = "ValueError"
    /\ Len(added) = 1
    /\ changes = 1
    /\ Len(history) = 2
    /\ history[1][1] = "Added"
    /\ history[2][1] = "StatusChanged"

\* C13: after a Save call the file holds the document made of the
\* serialized tasks of the store, in order, whatever the file held before
\* and whatever the history is; tasks and history are left as they were.
C13_SaveOverwrites ==
    [][ Called({"Save"}) =>
          /\ file' = [kind |-> "object", hasTasks |-> TRUE,
                      tasks |-> [i \in 1..Len(tasks) |-> to_dict(tasks[i])]]
          /\ tasks' = tasks
          /\ history' = history ]_vars

\* C13 witness: a store loaded from a file with one entry got a second
\* task and was saved over that file.
C13_Witness ==
    /\ op[1] = "Save"
    /\ startfile.kind = "object"
    /\ Len(startfile.tasks) = 1
    /\ nops = 3
    /\ Len(added) = 1
    /\ Len(history) = 1
    /\ Len(file.tasks) = 2

\* C14: no AddTask, ChangeStatus, CancelTask or Save call shortens the task
\* sequence or changes the title or description at an existing index, and
\* a task canceled by CancelTask stays in the sequence with status
\* CANCELED.
C14_NeverDeletedOrReordered ==
    [][ /\ Called({"AddTask", "ChangeStatus", "CancelTask", "Save"}) =>
              /\ Len(tasks') >= Len(tasks)
              /\ \A i \in 1..Len(tasks) :
                    /\ tasks'[i].title = tasks[i].title
                    /\ tasks'[i].description = tasks[i].description
        /\ (Called({"CancelTask"}) /\ FirstMatch(tasks, op'[2]) # 0) =>
              /\ Len(tasks') = Len(tasks)
              /\ tasks'[FirstMatch(tasks, op'[2])].status = "CANCELED" ]_vars

\* C14 witness: the first of two tasks with different titles was canceled
\* and both are still there.
C14_Witness ==
    /\ op[1] = "CancelTask"
    /\ outcome = "ok"
    /\ Len(tasks) = 2
    /\ tasks[1].title = op[2]
    /\ tasks[2].title # op[2]
    /\ tasks[1].status = "CANCELED"
    /\ tasks[2].status # "CANCELED"

\* C16: after a failed initial load there is no store; the program goes on
\* with an empty store exactly when the failure was FileNotFoundError, and
\* the store it goes on with is empty.
C16_OnlyMissingFileRecovered ==
    /\ (op[1] = "Load" /\ outcome # "ok") =>
          /\ manager = "none"
          /\ (ENABLED New) <=> (outcome = "FileNotFoundError")
    /\ op[1] = "New" =>
          /\ manager = "live"
          /\ file.kind = "absent"
          /\ tasks = <<>>
          /\ history = <<>>

\* C16 witness: the file did not exist and the session started empty.
C16_Witness ==
    /\ op[1] = "New"
    /\ manager = "live"
    /\ file = NoFile
    /\ nops = 1

\* C17 as stated: every task of every reachable store, loaded ones
\* included, has status_changed_date >= created_date.
C17_Original ==
    \A i \in 1..Len(tasks) :
        tasks[i].status_changed_date >= tasks[i].created_date

\* C17 amended: every task added to the store since it was constructed or
\* loaded has status_changed_date >= created_date, however often its
\* status was changed (the clock never goes back).
C17_AddedTasksOrdered ==
    \A i \in (base + 1)..Len(tasks) :
        tasks[i].status_changed_date >= tasks[i].created_date

\* C17 witness: a loaded task with status_changed_date before created_date
\* next to an added task whose status was changed after its creation.
C17_Witness ==
    /\ base = 1
    /\ Len(tasks) = 2
    /\ tasks[1].status_changed_date < tasks[1].created_date
    /\ tasks[2].status_changed_date > tasks[2].created_date
    /\ tasks[2].status # "NEW"

\* C18: a Save interrupted between the truncation and the end of the write
\* leaves a file that is neither the previous document nor the new one,
\* and a later Load of it fails (JSONDecodeError) and yields no store.
C18_SaveNotAtomic ==
    [][ /\ Called({"SaveInterrupted"}) =>
              /\ file' # file
              /\ file' # SavedDoc(tasks)
              /\ file'.kind = "partial"
        /\ (Called({"Load"}) /\ file.kind = "partial") =>
              /\ outcome' = "JSONDecodeError"
              /\ manager' = "none"
              /\ tasks' = <<>> ]_vars

\* C18 witness: the process was killed while saving, and the next Load
\* of the file failed.
C18_Witness ==
    /\ op[1] = "Load"
    /\ outcome = "JSONDecodeError"
    /\ file.kind = "partial"
    /\ manager = "none"
    /\ nops >= 3

\* a task whose title is the title of an earlier task
Shadowed(ts, j) == \E i \in 1..(j - 1) : ts[i].title = ts[j].title

\* C20: no AddTask, ChangeStatus or CancelTask call changes the status or
\* the status_changed_date of a task whose title equals the title of an
\* earlier task.
C20_ShadowedTaskUnreachable ==
    [][ Called({"AddTask", "ChangeStatus", "CancelTask"}) =>
          \A j \in 1..Len(tasks) :
              Shadowed(tasks, j) =>
                  /\ j <= Len(tasks')
                  /\ Shadowed(tasks', j)
                  /\ tasks'[j].status = tasks[j].status
                  /\ tasks'[j].status_changed_date
                        = tasks[j].status_changed_date ]_vars

\* C20 witness: CancelTask on a title held twice, after the clock moved
\* on: the second task is still NEW with its old status_changed_date.
C20_Witness ==
    /\ op[1] = "CancelTask"
    /\ outcome = "ok"
    /\ Len(tasks) = 2
    /\ tasks[1].title = op[2]
    /\ tasks[2].title = op[2]
    /\ tasks[1].status = "CANCELED"
    /\ tasks[2].status = "NEW"
    /\ tasks[2].status_changed_date < tasks[1].status_changed_date

\* C15: no task of the store has the empty title, in every state the
\* interactive loop reaches.
C15_TitleNonEmpty ==
    \A i \in 1..Len(tasks) : tasks[i].title # ""

\* C19: in the interactive loop the file is changed by the save-and-exit
\* choice only, and a session that ends any other way (exit without save,
\* ValueError of a change-status or cancel request for an unknown title)
\* leaves the file as it was when the session loaded it.
C19_OnlySaveWritesFile ==
    [][ /\ file' # file => (Called({"Save"}) /\ file' = SavedDoc(tasks))
        /\ (manager = "live" /\ manager' = "none" /\ op'[1] # "Save") =>
              /\ op'[1] \in {"Exit", "ChangeStatus", "CancelTask"}
              /\ file' = startfile ]_vars

\* C19 witness: a session that added a task and changed its status ended
\* on a cancel request for an unknown title; the file is as at the start.
C19_Witness ==
    /\ manager = "none"
    /\ op[1] = "CancelTask"
    /\ outcome = "ValueError"
    /\ Len(added) = 1
    /\ changes = 1
    /\ file = startfile

====
